---------------------------- MODULE Spec2Model ----------------------------
(***************************************************************************)
(* State-machine model of the AsciiConverter component                     *)
(* (src/src/components/AsciiConverter.tsx, lines 1-925): the glyph         *)
(* geometry kept in `settings`, the auto-fit locks kept in `autoSizing`,   *)
(* the auto-fit routine calculateAutoSize with the effect that re-runs it, *)
(* the randomizer, the settings reset and the frame-to-glyph conversion.   *)
(*                                                                         *)
(* Numbers.  JavaScript numbers are modelled as exact rationals <<n, d>>   *)
(* in lowest terms with d > 0; <<1, 0>> and <<-1, 0>> stand for +Infinity  *)
(* and -Infinity, which a division by zero produces in JavaScript.         *)
(***************************************************************************)
EXTENDS Integers, Sequences, FiniteSets, TLC

(***************************************************************************)
(* Rational arithmetic                                                     *)
(***************************************************************************)
RECURSIVE GCD(_, _)
GCD(a, b) ==
  IF b = 0 THEN a ELSE GCD(b, a % b)

IAbs(x) ==
  IF x < 0 THEN -x ELSE x

Sign(x) ==
  IF x < 0 THEN -1 ELSE IF x > 0 THEN 1 ELSE 0

Norm(n, d) ==
  IF d = 0 THEN <<Sign(n), 0>>
  ELSE LET g == GCD(IAbs(n), IAbs(d))
           s == IF d < 0 THEN -1 ELSE 1
       IN  <<(s * n) \div g, (s * d) \div g>>

R(n) ==
  <<n, 1>>

RAdd(a, b) ==
  Norm(a[1] * b[2] + b[1] * a[2], a[2] * b[2])

RSub(a, b) ==
  Norm(a[1] * b[2] - b[1] * a[2], a[2] * b[2])

RMul(a, b) ==
  Norm(a[1] * b[1], a[2] * b[2])

RDiv(a, b) ==
  Norm(a[1] * b[2], a[2] * b[1])

RLe(a, b) ==
  a[1] * b[2] <= b[1] * a[2]

RLt(a, b) ==
  a[1] * b[2] < b[1] * a[2]

RMin(a, b) ==
  IF RLe(a, b) THEN a ELSE b

RMax(a, b) ==
  IF RLe(a, b) THEN b ELSE a

RAbs(a) ==
  <<IAbs(a[1]), a[2]>>

RFloor(a) ==
  a[1] \div a[2]

(***************************************************************************)
(* Program constants                                                       *)
(***************************************************************************)
pixelStep ==
  6

MinFontSize ==
  4

MaxFontSize ==
  128

MinLineHeight ==
  <<1, 2>>

MaxLineHeight ==
  <<3, 1>>

MinLetterSpacing ==
  <<-2, 1>>

MaxLetterSpacing ==
  <<8, 1>>

EpsFontSize ==
  <<1, 10>>

EpsLetterSpacing ==
  <<1, 100>>

EpsLineHeight ==
  <<1, 100>>

ASCII_PRESETS ==
  [ Standard |-> <<"@", "#", "%", "*", "+", "=", "-", ":", ".", " ">>,
    Minimal  |-> <<"@", " ", ".", "=", "+", "#">>,
    Terminal |-> <<" ", ".", "_", "/">> ]

PresetNames ==
  {"Standard", "Minimal", "Terminal"}

MONOSPACE_FONTS ==
  {"JetBrains Mono", "Fira Code"}

DEFAULT_SETTINGS ==
  [ fontSize        |-> R(8),
    letterSpacing   |-> R(0),
    lineHeight      |-> R(1),
    contrast        |-> 100,
    brightness      |-> 100,
    saturation      |-> 100,
    invert          |-> FALSE,
    grayscale       |-> TRUE,
    mirrorCamera    |-> TRUE,
    foregroundColor |-> "#00ff00",
    backgroundColor |-> "#000000",
    asciiSet        |-> ASCII_PRESETS.Standard,
    fontFamily      |-> "JetBrains Mono",
    showStats       |-> FALSE ]

GeometryFields ==
  {"fontSize", "letterSpacing", "lineHeight"}

ControlFields ==
  { "fontSize", "letterSpacing", "lineHeight", "contrast", "brightness",
    "saturation", "invert", "grayscale", "mirrorCamera", "foregroundColor",
    "backgroundColor", "asciiSet", "fontFamily" }

DEFAULT_RANDOM_SETTINGS ==
  [ enabled  |-> FALSE,
    interval |-> 2000,
    autoMode |-> FALSE,
    controls |-> [f \in ControlFields |-> TRUE] ]

DEFAULT_AUTO_SIZING ==
  [f \in GeometryFields |-> TRUE]

VARIABLES
  settings,        \* useState<Settings>
  randomSettings,  \* useState<RandomSettings>
  autoSizing,      \* useState: TRUE = auto-fit may write the field, FALSE = locked
  isPlaying,       \* useState(false)
  cameraError,     \* useState<string | null>; "null" stands for null
  video,           \* the <video> element: readyState, videoWidth, videoHeight
  viewport,        \* window.innerWidth / window.innerHeight
  imageData,       \* pixels of the hidden canvas after the last drawImage
  display,         \* asciiRef.current.textContent
  storage,         \* localStorage item 'ascii-settings'
  mounted,         \* the mount effects have run
  autoSizePending, \* the effect [calculateAutoSize] is scheduled to run
  lastOp,          \* name of the handler that made the last step
  fit,             \* what calculateAutoSize did if it ran in the last step
  chainSeen,       \* geometries from which the effect ran in the current
                   \* uninterrupted chain of auto-size effect runs
  camera,          \* getUserMedia: state of the request, srcObject attached,
                   \* number of times the tracks of the stream were stopped
  tornDown,        \* the component was unmounted
  frames,          \* callbacks requestAnimationFrame holds: processFrame
                   \* closures that were scheduled and not yet run or cancelled
  frameRef,        \* frameRef.current: the closure scheduled last, or NoFrame
  loopDeps,        \* [isPlaying, processFrame] the start/stop effect last ran with
  intervals,       \* intervals of window.setInterval that were not cleared
  randomIntervalRef, \* randomIntervalRef.current; 0 stands for undefined
  intervalIds,     \* number of ids window.setInterval has handed out
  tick             \* what the last call of processFrame did

vars ==
  << settings, randomSettings, autoSizing, isPlaying, cameraError, video,
     viewport, imageData, display, storage, mounted, autoSizePending,
     lastOp, fit, chainSeen, camera, tornDown, frames, frameRef, loopDeps,
     intervals, randomIntervalRef, intervalIds, tick >>

\* State of the camera stream, of the frame loop and of the randomize timer.
lifeVars ==
  << camera, tornDown, frames, frameRef, loopDeps, intervals,
     randomIntervalRef, intervalIds, tick >>


(***************************************************************************)
(* Helpers on settings                                                     *)
(***************************************************************************)
Geometry(s) ==
  <<s.fontSize, s.letterSpacing, s.lineHeight>>

\* Dependency list of useCallback(calculateAutoSize): the callback, and with
\* it the effect that calls it, is re-created when one of these values changes.
AutoSizeDeps(s) ==
  <<s.fontSize, s.letterSpacing, s.lineHeight, s.fontFamily>>

\* metrics.width / fontSize for the letter 'M'.  The advance width of a
\* monospace font is proportional to the font size; the families of the
\* model (JetBrains Mono, Fira Code) both advance by 600/1000 em, which is
\* also the fallback value of the code.
measureGlyphAspect(fontFamily, fontSize) ==
  <<3, 5>>

Clamp(lo, hi, x) ==
  RMax(lo, RMin(hi, x))

GridCols(vid) ==
  vid.videoWidth \div pixelStep

GridRows(vid) ==
  vid.videoHeight \div pixelStep

CellWidth(s) ==
  RAdd(RMul(s.fontSize, measureGlyphAspect(s.fontFamily, s.fontSize)),
       RMul(s.letterSpacing, s.fontSize))

CellHeight(s) ==
  RMul(s.fontSize, s.lineHeight)

GridWidth(s, vid) ==
  RMul(R(GridCols(vid)), CellWidth(s))

GridHeight(s, vid) ==
  RMul(R(GridRows(vid)), CellHeight(s))

\* Variant of GridFits that never reports a fit.
GridNeverFits(s, vid, vp) ==
  FALSE

\* gridWidth <= viewportWidth && gridHeight <= viewportHeight
GridFits(s, vid, vp) ==
  RLe(GridWidth(s, vid), R(vp.w)) /\ RLe(GridHeight(s, vid), R(vp.h))

(***************************************************************************)
(* calculateAutoSize: the result is the new settings together with a       *)
(* description of the path taken.                                          *)
(*   outcome: "noVideo"    video dimensions not known, nothing done        *)
(*            "fits"       the grid already fits, early return             *)
(*            "allLocked"  the three fields are locked, early return       *)
(*            "suppressed" no solved value differs by more than epsilon    *)
(*            "written"    setSettings was called                          *)
(*   clamped: a solved value was outside its range and was clamped         *)
(***************************************************************************)
Unchanged(s, outcome) ==
  [s |-> s, outcome |-> outcome, clamped |-> FALSE]

\* Variant of FitScale that takes the larger of the two scale factors.
FitScaleLarger(widthScale, heightScale) ==
  RMax(widthScale, heightScale)

\* "Use the smaller scale to ensure both dimensions fit"
FitScale(widthScale, heightScale) ==
  RMin(widthScale, heightScale)

\* Variant of SolveAutoSize that scales the font size and the spacing whatever
\* the locks are.
SolveAutoSizeIgnoringLocks(s, auto, vp, vid) ==
  LET scale == FitScale(RDiv(R(vp.w), GridWidth(s, vid)),
                        RDiv(R(vp.h), GridHeight(s, vid)))
  IN  <<RMul(s.fontSize, scale), RMul(s.letterSpacing, scale), s.lineHeight>>

SolveAutoSize(s, auto, vp, vid) ==
  LET rows == GridRows(vid)
      cols == GridCols(vid)
      currentFontSize == s.fontSize
      currentLetterSpacing == s.letterSpacing
      currentLineHeight == s.lineHeight
      glyphAspect == measureGlyphAspect(s.fontFamily, currentFontSize)
      gridWidth == GridWidth(s, vid)
      gridHeight == GridHeight(s, vid)
      widthScale == RDiv(R(vp.w), gridWidth)
      heightScale == RDiv(R(vp.h), gridHeight)
      scale == FitScale(widthScale, heightScale)
      targetCellWidth == RDiv(R(vp.w), R(cols))
  IN  IF auto.fontSize /\ auto.letterSpacing /\ auto.lineHeight
      THEN \* none locked: scale font size and spacing, keep the line height
           << RMul(currentFontSize, scale),
              RMul(currentLetterSpacing, scale),
              currentLineHeight >>
      ELSE IF ~auto.fontSize
      THEN \* font size locked
           LET newGlyphWidth == RMul(currentFontSize, glyphAspect)
           IN  << currentFontSize,
                  IF auto.letterSpacing
                  THEN RDiv(RSub(targetCellWidth, newGlyphWidth), currentFontSize)
                  ELSE currentLetterSpacing,
                  IF auto.lineHeight
                  THEN RDiv(R(vp.h), RMul(R(rows), currentFontSize))
                  ELSE currentLineHeight >>
      ELSE IF ~auto.letterSpacing
      THEN \* letter spacing locked: the spacing in px uses the current font size
           LET targetLetterSpacingPx == RMul(currentLetterSpacing, currentFontSize)
               newFontSize == RDiv(RSub(targetCellWidth, targetLetterSpacingPx),
                                   glyphAspect)
           IN  << newFontSize,
                  currentLetterSpacing,
                  IF auto.lineHeight
                  THEN RDiv(R(vp.h), RMul(R(rows), newFontSize))
                  ELSE currentLineHeight >>
      ELSE \* only the line height locked
           LET newFontSize == RDiv(R(vp.h), RMul(R(rows), currentLineHeight))
               newGlyphWidth == RMul(newFontSize, glyphAspect)
           IN  << newFontSize,
                  IF auto.letterSpacing
                  THEN RDiv(RSub(targetCellWidth, newGlyphWidth), newFontSize)
                  ELSE currentLetterSpacing,
                  currentLineHeight >>

\* Variant of ClampGeometry without the lower boundaries (Math.min only).
ClampGeometryUpperOnly(g) ==
  << RMin(R(MaxFontSize), g[1]),
     RMin(MaxLetterSpacing, g[2]),
     RMin(MaxLineHeight, g[3]) >>

ClampGeometry(g) ==
  << Clamp(R(MinFontSize), R(MaxFontSize), g[1]),
     Clamp(MinLetterSpacing, MaxLetterSpacing, g[2]),
     Clamp(MinLineHeight, MaxLineHeight, g[3]) >>

\* Variant of GeometryChanged that reports every difference, however small.
GeometryChangedAtAll(new, s) ==
  new # Geometry(s)

\* The test of "Update settings if changed".
GeometryChanged(new, s) ==
  \/ RLt(EpsFontSize, RAbs(RSub(new[1], s.fontSize)))
  \/ RLt(EpsLetterSpacing, RAbs(RSub(new[2], s.letterSpacing)))
  \/ RLt(EpsLineHeight, RAbs(RSub(new[3], s.lineHeight)))

calculateAutoSize(s, auto, vp, vid) ==
  IF vid.videoWidth = 0 \/ vid.videoHeight = 0
  THEN Unchanged(s, "noVideo")
  ELSE IF GridFits(s, vid, vp)
  THEN Unchanged(s, "fits")
  ELSE IF ~auto.fontSize /\ ~auto.letterSpacing /\ ~auto.lineHeight
  THEN Unchanged(s, "allLocked")
  ELSE LET solved == SolveAutoSize(s, auto, vp, vid)
           new == ClampGeometry(solved)
       IN  IF GeometryChanged(new, s)
           THEN [ s |-> [s EXCEPT !.fontSize = new[1],
                                  !.letterSpacing = new[2],
                                  !.lineHeight = new[3]],
                  outcome |-> "written",
                  clamped |-> new # solved ]
           ELSE [ s |-> s, outcome |-> "suppressed", clamped |-> new # solved ]


(***************************************************************************)
(* Bounds and input sets                                                   *)
(***************************************************************************)
MaxFontStep ==
  1

MaxViewportStep ==
  2

\* Number of intervals the model lets startAutoRandomize start.
MaxIntervals ==
  2

\* Values the three geometry sliders can deliver (min/max/step of each Slider).
FontSizeInputs ==
  {R(MinFontSize)} \cup {R(16 * k) : k \in 1..MaxFontStep}

LetterSpacingInputs ==
  {R(0), <<3, 5>>, R(3)}

LineHeightInputs ==
  {R(1), MaxLineHeight}

\* Values randomizeSettings can draw: integers 4..31, [-2, 8) and [0.5, 3).
FontSizeDraws ==
  {R(31)}

LetterSpacingDraws ==
  {<<3, 5>>}

LineHeightDraws ==
  {MinLineHeight}

GeometryDraws ==
  [ fontSize : FontSizeDraws, letterSpacing : LetterSpacingDraws,
    lineHeight : LineHeightDraws ]

OtherDraws ==
  [ contrast : {0, 399}, brightness : {250}, saturation : {399},
    invert : BOOLEAN, grayscale : {FALSE}, mirrorCamera : {FALSE},
    foregroundColor : {"#fffffe"}, backgroundColor : {"#0000ff"},
    asciiSet : {ASCII_PRESETS.Minimal, ASCII_PRESETS.Terminal},
    fontFamily : {"Fira Code"} ]

\* One draw of the fields that have no influence on the geometry.
FixedOtherDraws ==
  { [ contrast |-> 399, brightness |-> 250, saturation |-> 399,
      invert |-> TRUE, grayscale |-> FALSE, mirrorCamera |-> FALSE,
      foregroundColor |-> "#fffffe", backgroundColor |-> "#0000ff",
      asciiSet |-> ASCII_PRESETS.Terminal, fontFamily |-> "Fira Code" ] }

\* window.innerWidth x window.innerHeight
Viewports ==
  {[w |-> 24 * k, h |-> 12 * k] : k \in 1..MaxViewportStep} \cup {[w |-> 12, h |-> 36]}

\* videoWidth x videoHeight once the metadata of the stream is known.
VideoSizes ==
  {[w |-> 12, h |-> 12], [w |-> 19, h |-> 7]}

\* The stream of the auto-fit specification: 3 columns and 2 rows of cells.
AutoFitVideoSize ==
  [w |-> 18, h |-> 12]

\* Content of the localStorage item when the component mounts: nothing, text
\* that JSON.parse rejects (a record cut off after its first field), a full
\* record and a record of an older version.
SavedRecords ==
  { [kind |-> "missing", fields |-> DEFAULT_SETTINGS],
    [kind |-> "corrupt", fields |-> [fontSize |-> R(16)]],
    [kind |-> "record",
     fields |-> [DEFAULT_SETTINGS EXCEPT !.fontSize = R(16),
                                         !.letterSpacing = <<-1, 10>>]],
    [kind |-> "record", fields |-> [letterSpacing |-> <<1, 2>>]] }

Saved(s) ==
  [kind |-> "record", fields |-> s]

\* Variant of LoadSettings that uses whatever fields the stored text shows,
\* without the try/catch around JSON.parse.
LoadSettingsUnchecked(saved) ==
  [f \in DOMAIN DEFAULT_SETTINGS |->
     IF saved.kind # "missing" /\ f \in DOMAIN saved.fields
     THEN saved.fields[f] ELSE DEFAULT_SETTINGS[f]]

\* { ...DEFAULT_SETTINGS, ...JSON.parse(saved) }
LoadSettings(saved) ==
  IF saved.kind = "record"
  THEN [f \in DOMAIN DEFAULT_SETTINGS |->
          IF f \in DOMAIN saved.fields THEN saved.fields[f] ELSE DEFAULT_SETTINGS[f]]
  ELSE DEFAULT_SETTINGS

NoFit ==
  [outcome |-> "none", clamped |-> FALSE]

\* frameRef.current before the first requestAnimationFrame.
NoFrame ==
  [scheduled |-> FALSE]

\* The start/stop effect has not run yet.
NoDeps ==
  [ran |-> FALSE]

\* processFrame was not called.
NoTick ==
  [outcome |-> "none", closure |-> NoFrame]

\* getUserMedia was not called yet.
NoCamera ==
  [request |-> "none", attached |-> FALSE, stops |-> 0]

CameraErrorNotice ==
  "Camera access denied or unavailable"

\* Variant of initCamera that asks for the camera again after a failure.
initCameraRetrying(cam, granted, refPresent, playing, error) ==
  IF granted
  THEN [ camera |-> [cam EXCEPT !.request = "resolved", !.attached = refPresent],
         isPlaying |-> playing \/ refPresent,
         cameraError |-> IF refPresent THEN "null" ELSE error ]
  ELSE [ camera |-> [cam EXCEPT !.request = "pending"],
         isPlaying |-> playing,
         cameraError |-> IF refPresent THEN CameraErrorNotice ELSE error ]

\* initCamera after the await (lines 169-179).  refPresent: the component is
\* mounted, so videoRef.current is the video element and the state setters
\* act; after the unmount the ref is null and the setters do nothing.
initCamera(cam, granted, refPresent, playing, error) ==
  IF granted
  THEN [ camera |-> [cam EXCEPT !.request = "resolved", !.attached = refPresent],
         isPlaying |-> playing \/ refPresent,
         cameraError |-> IF refPresent THEN "null" ELSE error ]
  ELSE [ camera |-> [cam EXCEPT !.request = "rejected"],
         isPlaying |-> playing,
         cameraError |-> IF refPresent THEN CameraErrorNotice ELSE error ]

(***************************************************************************)
(* Initial state: the component is constructed, no effect has run yet.     *)
(***************************************************************************)
Init ==
  /\ settings = DEFAULT_SETTINGS
  /\ randomSettings = DEFAULT_RANDOM_SETTINGS
  /\ autoSizing = DEFAULT_AUTO_SIZING
  /\ isPlaying = FALSE
  /\ cameraError = "null"
  /\ video = [readyState |-> 0, videoWidth |-> 0, videoHeight |-> 0]
  /\ viewport \in Viewports
  /\ imageData = << >>
  /\ display = << >>
  /\ storage \in SavedRecords
  /\ mounted = FALSE
  /\ autoSizePending = FALSE
  /\ lastOp = "init"
  /\ fit = NoFit
  /\ chainSeen = {}
  /\ camera = NoCamera
  /\ tornDown = FALSE
  /\ frames = {}
  /\ frameRef = NoFrame
  /\ loopDeps = NoDeps
  /\ intervals = {}
  /\ randomIntervalRef = 0
  /\ intervalIds = 0
  /\ tick = NoTick

(***************************************************************************)
(* Mount: the effects with an empty dependency list.  The stored settings  *)
(* are loaded (lines 142-151), the settings are saved (154-156) and the    *)
(* auto-size effect runs once while the video has no dimensions yet.       *)
(***************************************************************************)
Mount ==
  /\ ~mounted /\ ~tornDown
  /\ mounted' = TRUE
  /\ settings' = LoadSettings(storage)
  /\ storage' = Saved(settings')
  /\ autoSizePending' = (AutoSizeDeps(settings') # AutoSizeDeps(settings))
  /\ fit' = NoFit
  /\ chainSeen' = {}
  /\ lastOp' = "mount"
  /\ camera' = [camera EXCEPT !.request = "pending"]
  /\ UNCHANGED <<randomSettings, autoSizing, isPlaying, cameraError, video,
                 viewport, imageData, display>>
  /\ UNCHANGED <<tornDown, frames, frameRef, loopDeps, intervals,
                 randomIntervalRef, intervalIds, tick>>

(***************************************************************************)
(* Camera and video element (lines 159-190)                                *)
(***************************************************************************)
\* getUserMedia resolves with a stream.
CameraGranted ==
  /\ camera.request = "pending"
  /\ LET r == initCamera(camera, TRUE, mounted, isPlaying, cameraError)
     IN  /\ camera' = r.camera
         /\ isPlaying' = r.isPlaying
         /\ cameraError' = r.cameraError
  /\ fit' = NoFit
  /\ chainSeen' = {}
  /\ lastOp' = "cameraGranted"
  /\ UNCHANGED <<settings, randomSettings, autoSizing, video,
                 viewport, imageData, display, storage, mounted,
                 autoSizePending>>
  /\ UNCHANGED <<tornDown, frames, frameRef, loopDeps, intervals,
                 randomIntervalRef, intervalIds, tick>>

\* getUserMedia rejects: permission denied or no device.
CameraDenied ==
  /\ camera.request = "pending"
  /\ LET r == initCamera(camera, FALSE, mounted, isPlaying, cameraError)
     IN  /\ camera' = r.camera
         /\ isPlaying' = r.isPlaying
         /\ cameraError' = r.cameraError
  /\ fit' = NoFit
  /\ chainSeen' = {}
  /\ lastOp' = "cameraDenied"
  /\ UNCHANGED <<settings, randomSettings, autoSizing, video,
                 viewport, imageData, display, storage, mounted,
                 autoSizePending>>
  /\ UNCHANGED <<tornDown, frames, frameRef, loopDeps, intervals,
                 randomIntervalRef, intervalIds, tick>>

\* The stream delivers its metadata: videoWidth and videoHeight become known.
VideoMetadata(size) ==
  /\ isPlaying /\ video.readyState = 0
  /\ video' = [readyState |-> 1, videoWidth |-> size.w, videoHeight |-> size.h]
  /\ fit' = NoFit
  /\ chainSeen' = {}
  /\ UNCHANGED lifeVars
  /\ lastOp' = "videoMetadata"
  /\ UNCHANGED <<settings, randomSettings, autoSizing, isPlaying, cameraError,
                 viewport, imageData, display, storage, mounted,
                 autoSizePending>>

\* The stream has enough data to play: readyState becomes HAVE_ENOUGH_DATA.
VideoCanPlay ==
  /\ video.readyState = 1
  /\ video' = [video EXCEPT !.readyState = 4]
  /\ fit' = NoFit
  /\ chainSeen' = {}
  /\ UNCHANGED lifeVars
  /\ lastOp' = "videoCanPlay"
  /\ UNCHANGED <<settings, randomSettings, autoSizing, isPlaying, cameraError,
                 viewport, imageData, display, storage, mounted,
                 autoSizePending>>

(***************************************************************************)
(* Auto-fit: the effect on [calculateAutoSize] and the resize listener     *)
(* (lines 529-533).  setSettings re-creates the callback when a dependency *)
(* changed, which schedules the effect again.                              *)
(***************************************************************************)
RunAutoSize(vp, op, stillPending) ==
  LET r == calculateAutoSize(settings, autoSizing, vp, video)
  IN  /\ settings' = r.s
      /\ storage' = Saved(r.s)
      /\ fit' = [outcome |-> r.outcome, clamped |-> r.clamped]
      /\ autoSizePending' =
           (stillPending \/ AutoSizeDeps(r.s) # AutoSizeDeps(settings))
      /\ lastOp' = op

AutoSizeEffect ==
  /\ mounted /\ autoSizePending
  /\ RunAutoSize(viewport, "autoSizeEffect", FALSE)
  /\ chainSeen' = chainSeen \cup {Geometry(settings)}
  /\ UNCHANGED lifeVars
  /\ UNCHANGED <<randomSettings, autoSizing, isPlaying, cameraError, video,
                 viewport, imageData, display, mounted>>

Resize(vp) ==
  /\ mounted
  /\ viewport' = vp
  /\ RunAutoSize(vp, "resize", autoSizePending)
  /\ chainSeen' = {}
  /\ UNCHANGED lifeVars
  /\ UNCHANGED <<randomSettings, autoSizing, isPlaying, cameraError, video,
                 imageData, display, mounted>>

(***************************************************************************)
(* User edits (lines 624-810)                                              *)
(***************************************************************************)
\* Variant of LockField that builds the lock record anew instead of spreading
\* the previous one.
LockFieldOnly(auto, field) ==
  [f \in GeometryFields |-> f # field]

\* setAutoSizing(prev => ({ ...prev, [field]: false }))
LockField(auto, field) ==
  [auto EXCEPT ![field] = FALSE]

\* onValueChange of the fontSize, letterSpacing and lineHeight sliders.
SetGeometrySlider(field, value) ==
  /\ mounted
  /\ settings' = [settings EXCEPT ![field] = value]
  /\ autoSizing' = LockField(autoSizing, field)
  /\ storage' = Saved(settings')
  /\ autoSizePending' = TRUE
  /\ fit' = NoFit
  /\ chainSeen' = {}
  /\ UNCHANGED lifeVars
  /\ lastOp' = "slider"
  /\ UNCHANGED <<randomSettings, isPlaying, cameraError, video, viewport,
                 imageData, display, mounted>>

\* Every other control: setSettings(prev => ({ ...prev, [field]: value })).
SetField(field, value) ==
  /\ mounted
  /\ settings' = [settings EXCEPT ![field] = value]
  /\ storage' = Saved(settings')
  /\ autoSizePending' =
       (autoSizePending \/ AutoSizeDeps(settings') # AutoSizeDeps(settings))
  /\ fit' = NoFit
  /\ chainSeen' = {}
  /\ UNCHANGED lifeVars
  /\ lastOp' = "setField"
  /\ UNCHANGED <<randomSettings, autoSizing, isPlaying, cameraError, video,
                 viewport, imageData, display, mounted>>

(***************************************************************************)
(* Reset (lines 452-454): setSettings(DEFAULT_SETTINGS) and nothing else.  *)
(***************************************************************************)
resetSettings ==
  /\ mounted
  /\ settings' = DEFAULT_SETTINGS
  /\ storage' = Saved(settings')
  /\ autoSizePending' =
       (autoSizePending \/ AutoSizeDeps(settings') # AutoSizeDeps(settings))
  /\ fit' = NoFit
  /\ chainSeen' = {}
  /\ UNCHANGED lifeVars
  /\ lastOp' = "reset"
  /\ UNCHANGED <<randomSettings, autoSizing, isPlaying, cameraError, video,
                 viewport, imageData, display, mounted>>

(***************************************************************************)
(* Randomization (lines 457-509, 819-880)                                  *)
(***************************************************************************)
SetRandomEnabled(checked) ==
  /\ mounted
  /\ randomSettings' = [randomSettings EXCEPT !.enabled = checked]
  /\ fit' = NoFit
  /\ chainSeen' = {}
  /\ UNCHANGED lifeVars
  /\ lastOp' = "setRandomEnabled"
  /\ UNCHANGED <<settings, autoSizing, isPlaying, cameraError, video, viewport,
                 imageData, display, storage, mounted, autoSizePending>>

\* The per-field switches are rendered only while random mode is enabled.
SetRandomControl(field, checked) ==
  /\ mounted /\ randomSettings.enabled
  /\ randomSettings' = [randomSettings EXCEPT !.controls[field] = checked]
  /\ fit' = NoFit
  /\ chainSeen' = {}
  /\ UNCHANGED lifeVars
  /\ lastOp' = "setRandomControl"
  /\ UNCHANGED <<settings, autoSizing, isPlaying, cameraError, video, viewport,
                 imageData, display, storage, mounted, autoSizePending>>

\* Variant of RandomizedSettings that starts from the default settings instead
\* of the previous ones.
RandomizedFromDefaults(prev, controls, draw) ==
  [f \in DOMAIN prev |->
     IF f \in ControlFields /\ controls[f] THEN draw[f] ELSE DEFAULT_SETTINGS[f]]

\* The updater passed to setSettings: every enabled field takes its draw.
RandomizedSettings(prev, controls, draw) ==
  [f \in DOMAIN prev |->
     IF f \in ControlFields /\ controls[f] THEN draw[f] ELSE prev[f]]

\* Variant of RandomizedLocks without the setAutoSizing call of lineHeight.
RandomizedLocksWithoutLineHeight(auto, controls) ==
  [f \in GeometryFields |->
     IF f # "lineHeight" /\ controls[f] THEN FALSE ELSE auto[f]]

\* The setAutoSizing calls made inside the updater.
RandomizedLocks(auto, controls) ==
  [f \in GeometryFields |-> IF controls[f] THEN FALSE ELSE auto[f]]

randomizeSettings(draw) ==
  /\ mounted
  /\ fit' = NoFit
  /\ chainSeen' = {}
  /\ UNCHANGED lifeVars
  /\ lastOp' = "randomize"
  /\ IF ~randomSettings.enabled
     THEN UNCHANGED <<settings, autoSizing, storage, autoSizePending>>
     ELSE /\ settings' = RandomizedSettings(settings, randomSettings.controls, draw)
          /\ autoSizing' = RandomizedLocks(autoSizing, randomSettings.controls)
          /\ storage' = Saved(settings')
          /\ autoSizePending' =
               \/ autoSizePending
               \/ AutoSizeDeps(settings') # AutoSizeDeps(settings)
               \/ \E f \in GeometryFields : randomSettings.controls[f]
  /\ UNCHANGED <<randomSettings, isPlaying, cameraError, video, viewport,
                 imageData, display, mounted>>


(***************************************************************************)
(* Auto-randomization timer (lines 511-526, 849-857).  An interval holds   *)
(* the randomizeSettings callback of the render in which it was started,   *)
(* and with it the randomSettings of that render.  The two callbacks are   *)
(* callable whenever the randomization panel is rendered; the button calls *)
(* stopAutoRandomize while autoMode is set and startAutoRandomize          *)
(* otherwise.                                                              *)
(***************************************************************************)
\* Variant of ClearedIntervals that leaves the interval running.
KeptIntervals(active, ref) ==
  active

\* if (randomIntervalRef.current) clearInterval(randomIntervalRef.current)
ClearedIntervals(active, ref) ==
  {t \in active : t.id # ref}

startAutoRandomize ==
  /\ mounted /\ randomSettings.enabled
  /\ intervalIds < MaxIntervals
  /\ intervalIds' = intervalIds + 1
  /\ intervals' =
       ClearedIntervals(intervals, randomIntervalRef)
         \cup {[id |-> intervalIds + 1, randomSettings |-> randomSettings]}
  /\ randomIntervalRef' = intervalIds + 1
  /\ randomSettings' = [randomSettings EXCEPT !.autoMode = TRUE]
  /\ fit' = NoFit
  /\ chainSeen' = {}
  /\ lastOp' = "startAutoRandomize"
  /\ UNCHANGED <<settings, autoSizing, isPlaying, cameraError, video, viewport,
                 imageData, display, storage, mounted, autoSizePending>>
  /\ UNCHANGED <<camera, tornDown, frames, frameRef, loopDeps, tick>>

stopAutoRandomize ==
  /\ mounted /\ randomSettings.enabled
  /\ intervals' = ClearedIntervals(intervals, randomIntervalRef)
  /\ randomIntervalRef' = 0
  /\ randomSettings' = [randomSettings EXCEPT !.autoMode = FALSE]
  /\ fit' = NoFit
  /\ chainSeen' = {}
  /\ lastOp' = "stopAutoRandomize"
  /\ UNCHANGED <<settings, autoSizing, isPlaying, cameraError, video, viewport,
                 imageData, display, storage, mounted, autoSizePending>>
  /\ UNCHANGED <<camera, tornDown, frames, frameRef, loopDeps, intervalIds,
                 tick>>

\* The interval t fires: randomizeSettings of the render that started it runs.
\* After the unmount the state setters do nothing.
TimerTick(t, draw) ==
  /\ t \in intervals
  /\ fit' = NoFit
  /\ chainSeen' = {}
  /\ lastOp' = "timerTick"
  /\ IF ~mounted \/ ~t.randomSettings.enabled
     THEN UNCHANGED <<settings, autoSizing, storage, autoSizePending>>
     ELSE /\ settings' = RandomizedSettings(settings, t.randomSettings.controls, draw)
          /\ autoSizing' = RandomizedLocks(autoSizing, t.randomSettings.controls)
          /\ storage' = Saved(settings')
          /\ autoSizePending' =
               \/ autoSizePending
               \/ AutoSizeDeps(settings') # AutoSizeDeps(settings)
               \/ \E f \in GeometryFields : t.randomSettings.controls[f]
  /\ UNCHANGED <<randomSettings, isPlaying, cameraError, video, viewport,
                 imageData, display, mounted>>
  /\ UNCHANGED lifeVars

(***************************************************************************)
(* Unmount: the cleanup functions of the effects run (lines 183-188,       *)
(* 401-405, 532).  The animation frame of frameRef is cancelled and the    *)
(* resize listener is removed; the tracks of the stream are stopped if     *)
(* videoRef.current still is the video element when the cleanup runs,      *)
(* which depends on the version of React (refPresent).  No cleanup clears  *)
(* the interval of randomIntervalRef.                                      *)
(***************************************************************************)
\* Variant of CancelledFrames that cancels nothing.
KeptFrames(pending, ref) ==
  pending

\* if (frameRef.current) cancelAnimationFrame(frameRef.current)
CancelledFrames(pending, ref) ==
  pending \ {ref}

Unmount(refPresent) ==
  /\ mounted
  /\ mounted' = FALSE
  /\ tornDown' = TRUE
  /\ frames' = CancelledFrames(frames, frameRef)
  /\ camera' = IF refPresent /\ camera.attached
               THEN [camera EXCEPT !.stops = @ + 1]
               ELSE camera
  /\ fit' = NoFit
  /\ chainSeen' = {}
  /\ lastOp' = "unmount"
  /\ UNCHANGED <<settings, randomSettings, autoSizing, isPlaying, cameraError,
                 video, viewport, imageData, display, storage,
                 autoSizePending>>
  /\ UNCHANGED <<frameRef, loopDeps, intervals, randomIntervalRef, intervalIds,
                 tick>>


(***************************************************************************)
(* Frame conversion (lines 193-197, 311-389)                               *)
(***************************************************************************)
IMin(a, b) ==
  IF a <= b THEN a ELSE b

IMax(a, b) ==
  IF a >= b THEN a ELSE b

\* (0.299 * r + 0.587 * g + 0.114 * b) / 255 of a pixel <<r, g, b>>
Luminance(px) ==
  Norm(299 * px[1] + 587 * px[2] + 114 * px[3], 255000)

\* Variant of pixelToAsciiIndex that multiplies by chars.length instead of
\* chars.length - 1.
pixelToAsciiIndexByLength(luminance, chars, invert) ==
  LET normalized == IF invert THEN RSub(R(1), luminance) ELSE luminance
      index == RFloor(RMul(normalized, R(Len(chars))))
  IN  IMax(0, IMin(index, Len(chars) - 1))

\* Index computed by pixelToAscii, counted from 0 as in the code.
pixelToAsciiIndex(luminance, chars, invert) ==
  LET normalized == IF invert THEN RSub(R(1), luminance) ELSE luminance
      index == RFloor(RMul(normalized, R(Len(chars) - 1)))
  IN  IMax(0, IMin(index, Len(chars) - 1))

\* chars[i] of a JavaScript string is undefined outside the string, and
\* `ascii += undefined` appends the text "undefined".
pixelToAscii(luminance, chars, invert) ==
  LET i == pixelToAsciiIndex(luminance, chars, invert)
  IN  IF i + 1 \in DOMAIN chars THEN chars[i + 1] ELSE "undefined"

\* The inner loop over x, followed by the line break of the row.
AsciiRow(row, width, chars, invert) ==
  [x \in 1..width |-> pixelToAscii(Luminance(row[x]), chars, invert)] \o <<"\n">>

\* The outer loop over y: rows y..height of the image appended in order.
RECURSIVE AsciiRows(_, _, _, _, _, _)
AsciiRows(img, y, width, height, chars, invert) ==
  IF y > height THEN << >>
  ELSE AsciiRow(img[y], width, chars, invert)
         \o AsciiRows(img, y + 1, width, height, chars, invert)

\* Colours getImageData can return for one cell of the down-sampled canvas,
\* after the CSS filters and the mirroring were applied by the browser.
Palette ==
  {<<0, 0, 0>>, <<255, 255, 255>>, <<200, 30, 90>>}

Images(width, height) ==
  [1..height -> [1..width -> Palette]]

\* One tick of processFrame on a video that is ready: the canvas receives the
\* down-sampled frame and the text is assigned to the <pre> element at once.
processFrame(img) ==
  /\ mounted /\ isPlaying /\ video.readyState = 4
  /\ LET width == video.videoWidth \div pixelStep
         height == video.videoHeight \div pixelStep
     IN  /\ img \in Images(width, height)
         /\ imageData' = img
         /\ display' = AsciiRows(img, 1, width, height, settings.asciiSet,
                                 settings.invert)
  /\ fit' = NoFit
  /\ chainSeen' = {}
  /\ UNCHANGED lifeVars
  /\ lastOp' = "processFrame"
  /\ UNCHANGED <<settings, randomSettings, autoSizing, isPlaying, cameraError,
                 video, viewport, storage, mounted, autoSizePending>>

\* A tick while the component is not playing or the video is not ready
\* returns before touching the canvas (lines 312-320).
processFrameSkip ==
  /\ mounted /\ ~(isPlaying /\ video.readyState = 4)
  /\ fit' = NoFit
  /\ chainSeen' = {}
  /\ UNCHANGED lifeVars
  /\ lastOp' = "processFrameSkip"
  /\ UNCHANGED <<settings, randomSettings, autoSizing, isPlaying, cameraError,
                 video, viewport, imageData, display, storage, mounted,
                 autoSizePending>>

(***************************************************************************)
(* Frame loop (lines 311-320, 387-406).  processFrame is re-created when   *)
(* settings or isPlaying change: a callback holds the settings and the     *)
(* isPlaying of the render that created it.  The start/stop effect runs    *)
(* after the render that changed [isPlaying, processFrame] was committed;  *)
(* an animation frame that is already scheduled may fire in between.       *)
(***************************************************************************)
\* The processFrame callback of the current render.
ProcessFrameClosure(s, playing) ==
  [settings |-> s, isPlaying |-> playing]

\* The dependencies of the start/stop effect in the current render.
LoopDeps(s, playing) ==
  [ran |-> TRUE, settings |-> s, isPlaying |-> playing]

\* Variant of StartsLoop that calls processFrame whatever isPlaying is.
StartsLoopAlways(playing) ==
  TRUE

\* if (isPlaying) of the start/stop effect (line 393)
StartsLoop(playing) ==
  playing

\* Variant of FrameReady without the test of video.readyState.
FrameReadyWithoutReadyState(c, refPresent, vid) ==
  refPresent /\ c.isPlaying

\* The two early returns of processFrame (lines 312-320); refPresent: the
\* elements of videoRef, canvasRef and asciiRef exist.
FrameReady(c, refPresent, vid) ==
  refPresent /\ c.isPlaying /\ vid.readyState = 4

\* One call of the callback c while the callbacks of `pending` are scheduled:
\* either it returns early, or it converts the frame img, assigns the text
\* and schedules itself (line 388).
CallProcessFrame(c, pending, img) ==
  IF FrameReady(c, mounted, video)
  THEN /\ imageData' = img
       /\ display' = AsciiRows(img, 1, video.videoWidth \div pixelStep,
                               video.videoHeight \div pixelStep,
                               c.settings.asciiSet, c.settings.invert)
       /\ frames' = pending \cup {c}
       /\ frameRef' = c
       /\ tick' = [outcome |-> "converted", closure |-> c]
  ELSE /\ UNCHANGED <<imageData, display, frameRef>>
       /\ frames' = pending
       /\ tick' = [outcome |-> "skipped", closure |-> c]

\* The start/stop effect: the cleanup of its previous run, then its body.
StartStopEffect(img) ==
  /\ mounted
  /\ loopDeps # LoopDeps(settings, isPlaying)
  /\ loopDeps' = LoopDeps(settings, isPlaying)
  /\ LET pending == IF loopDeps = NoDeps THEN frames
                    ELSE CancelledFrames(frames, frameRef)
     IN  IF StartsLoop(isPlaying)
         THEN CallProcessFrame(ProcessFrameClosure(settings, isPlaying),
                               pending, img)
         ELSE /\ frames' = CancelledFrames(pending, frameRef)
              /\ tick' = NoTick
              /\ UNCHANGED <<imageData, display, frameRef>>
  /\ fit' = NoFit
  /\ chainSeen' = {}
  /\ lastOp' = "startStopEffect"
  /\ UNCHANGED <<settings, randomSettings, autoSizing, isPlaying, cameraError,
                 video, viewport, storage, mounted, autoSizePending>>
  /\ UNCHANGED <<camera, tornDown, intervals, randomIntervalRef, intervalIds>>

\* The browser runs the scheduled callback c.
AnimationFrame(c, img) ==
  /\ c \in frames
  /\ CallProcessFrame(c, frames \ {c}, img)
  /\ fit' = NoFit
  /\ chainSeen' = {}
  /\ lastOp' = "animationFrame"
  /\ UNCHANGED <<settings, randomSettings, autoSizing, isPlaying, cameraError,
                 video, viewport, storage, mounted, autoSizePending>>
  /\ UNCHANGED <<camera, tornDown, loopDeps, intervals, randomIntervalRef,
                 intervalIds>>

(***************************************************************************)
(* Specification of the auto-fit machine: mount, camera, geometry edits,   *)
(* font family, reset, randomize, resize and the auto-size effect.         *)
(***************************************************************************)
Next ==
  \/ Mount
  \/ CameraGranted
  \/ CameraDenied
  \/ VideoMetadata(AutoFitVideoSize)
  \/ AutoSizeEffect
  \/ \E vp \in Viewports : Resize(vp)
  \/ \E v \in FontSizeInputs : SetGeometrySlider("fontSize", v)
  \/ \E v \in LetterSpacingInputs : SetGeometrySlider("letterSpacing", v)
  \/ \E v \in LineHeightInputs : SetGeometrySlider("lineHeight", v)
  \/ resetSettings
  \/ \E b \in BOOLEAN : SetRandomEnabled(b)
  \/ \E gd \in GeometryDraws, od \in FixedOtherDraws : randomizeSettings(gd @@ od)

Spec ==
  Init /\ [][Next]_vars


(***************************************************************************)
(* Specification of the frame converter: the camera starts, the stream     *)
(* becomes ready, the user changes the ramp and the invert switch, and     *)
(* ticks convert frames.  The geometry is never edited, so the auto-size   *)
(* effect is never scheduled.                                              *)
(***************************************************************************)
\* Texts typed into the "Characters" field, the cleared field included.
CustomRamps ==
  {<< >>, <<"#">>, <<" ", "#">>}

RampInputs ==
  {ASCII_PRESETS.Standard, ASCII_PRESETS.Terminal} \cup CustomRamps

InitFrame ==
  /\ Init
  /\ storage.kind = "missing"
  /\ viewport = [w |-> 48, h |-> 24]

NextFrame ==
  \/ Mount
  \/ CameraGranted
  \/ \E size \in VideoSizes : VideoMetadata(size)
  \/ VideoCanPlay
  \/ \E b \in BOOLEAN : SetField("invert", b)
  \/ \E ramp \in RampInputs : SetField("asciiSet", ramp)
  \/ \E img \in Images(video.videoWidth \div pixelStep,
                       video.videoHeight \div pixelStep) : processFrame(img)
  \/ processFrameSkip

SpecFrame ==
  InitFrame /\ [][NextFrame]_vars

(***************************************************************************)
(* Specification of the randomizer: the per-field switches start in one of *)
(* the configurations the user can set (all fields, or a single field),    *)
(* the video never delivers dimensions, so auto-fit runs without effect.   *)
(***************************************************************************)
OnlyControl(field) ==
  [f \in ControlFields |-> f = field]

ControlChoices ==
  {DEFAULT_RANDOM_SETTINGS.controls} \cup {OnlyControl(f) : f \in ControlFields}

InitRandom ==
  /\ settings = DEFAULT_SETTINGS
  /\ randomSettings \in
       {[DEFAULT_RANDOM_SETTINGS EXCEPT !.controls = c] : c \in ControlChoices}
  /\ autoSizing = DEFAULT_AUTO_SIZING
  /\ isPlaying = FALSE
  /\ cameraError = "null"
  /\ video = [readyState |-> 0, videoWidth |-> 0, videoHeight |-> 0]
  /\ viewport = [w |-> 48, h |-> 24]
  /\ imageData = << >>
  /\ display = << >>
  /\ storage = [kind |-> "missing", fields |-> DEFAULT_SETTINGS]
  /\ mounted = FALSE
  /\ autoSizePending = FALSE
  /\ lastOp = "init"
  /\ fit = NoFit
  /\ chainSeen = {}
  /\ camera = NoCamera
  /\ tornDown = FALSE
  /\ frames = {}
  /\ frameRef = NoFrame
  /\ loopDeps = NoDeps
  /\ intervals = {}
  /\ randomIntervalRef = 0
  /\ intervalIds = 0
  /\ tick = NoTick

NextRandom ==
  \/ Mount
  \/ AutoSizeEffect
  \/ \E v \in FontSizeInputs : SetGeometrySlider("fontSize", v)
  \/ \E v \in {R(3)} : SetGeometrySlider("letterSpacing", v)
  \/ \E v \in LineHeightInputs : SetGeometrySlider("lineHeight", v)
  \/ resetSettings
  \/ \E b \in BOOLEAN : SetRandomEnabled(b)
  \/ \E f \in GeometryFields, b \in BOOLEAN : SetRandomControl(f, b)
  \/ \E gd \in GeometryDraws, od \in OtherDraws : randomizeSettings(gd @@ od)

SpecRandom ==
  InitRandom /\ [][NextRandom]_vars


(***************************************************************************)
(* Specification of the auto-randomization timer: the user enables random  *)
(* mode, chooses the fields, starts and stops the timer, the timer fires,  *)
(* and the component is unmounted.  The video never delivers dimensions.   *)
(***************************************************************************)
InitTimer ==
  /\ Init
  /\ storage.kind = "missing"
  /\ viewport = [w |-> 48, h |-> 24]

NextTimer ==
  \/ Mount
  \/ AutoSizeEffect
  \/ \E b \in BOOLEAN : SetRandomEnabled(b)
  \/ \E f \in {"invert", "fontSize"}, b \in BOOLEAN : SetRandomControl(f, b)
  \/ startAutoRandomize
  \/ stopAutoRandomize
  \/ \E t \in intervals, gd \in GeometryDraws, od \in FixedOtherDraws :
       TimerTick(t, gd @@ od)
  \/ \E gd \in GeometryDraws, od \in FixedOtherDraws : randomizeSettings(gd @@ od)
  \/ \E refPresent \in BOOLEAN : Unmount(refPresent)

SpecTimer ==
  InitTimer /\ [][NextTimer]_vars


(***************************************************************************)
(* Specification of the frame loop: the component mounts, the camera opens *)
(* or fails, the stream becomes ready, the user changes the invert switch  *)
(* and the ramp, the start/stop effect and the animation frames run, and   *)
(* the component is unmounted at any time.                                 *)
(***************************************************************************)
\* The stream of the frame-loop specification: 2 columns and 1 row of cells.
LoopVideoSize ==
  [w |-> 12, h |-> 6]

LoopImages ==
  Images(LoopVideoSize.w \div pixelStep, LoopVideoSize.h \div pixelStep)

InitLoop ==
  /\ Init
  /\ storage.kind = "missing"
  /\ viewport = [w |-> 48, h |-> 24]

NextLoop ==
  \/ Mount
  \/ CameraGranted
  \/ CameraDenied
  \/ VideoMetadata(LoopVideoSize)
  \/ VideoCanPlay
  \/ \E b \in BOOLEAN : SetField("invert", b)
  \/ SetField("asciiSet", ASCII_PRESETS.Minimal)
  \/ \E img \in LoopImages : StartStopEffect(img)
  \/ \E c \in frames, img \in LoopImages : AnimationFrame(c, img)
  \/ \E refPresent \in BOOLEAN : Unmount(refPresent)

SpecLoop ==
  InitLoop /\ [][NextLoop]_vars


(***************************************************************************)
(* Specification of the clamping: the auto-fit machine on a stream of 25   *)
(* columns and 1 row, in narrow viewports where the solved font size comes *)
(* close to its lower boundary.                                            *)
(***************************************************************************)
ClampVideoSize ==
  [w |-> 150, h |-> 6]

ClampViewports ==
  {[w |-> 61, h |-> 36], [w |-> 59, h |-> 36], [w |-> 150, h |-> 36]}

InitClamp ==
  /\ Init
  /\ storage.kind = "missing"
  /\ viewport = [w |-> 48, h |-> 24]

NextClamp ==
  \/ Mount
  \/ CameraGranted
  \/ VideoMetadata(ClampVideoSize)
  \/ AutoSizeEffect
  \/ \E vp \in ClampViewports : Resize(vp)
  \/ \E v \in FontSizeInputs : SetGeometrySlider("fontSize", v)
  \/ \E v \in {R(0), R(MaxLetterSpacing[1])} : SetGeometrySlider("letterSpacing", v)
  \/ \E v \in LineHeightInputs : SetGeometrySlider("lineHeight", v)
  \/ resetSettings
  \/ \E b \in BOOLEAN : SetRandomEnabled(b)
  \/ \E gd \in GeometryDraws, od \in FixedOtherDraws : randomizeSettings(gd @@ od)

SpecClamp ==
  InitClamp /\ [][NextClamp]_vars


(***************************************************************************)
(* Properties                                                              *)
(***************************************************************************)
AutoSizeOps ==
  {"autoSizeEffect", "resize"}

FieldInRange(field, s) ==
  CASE field = "fontSize" ->
         RLe(R(MinFontSize), s.fontSize) /\ RLe(s.fontSize, R(MaxFontSize))
    [] field = "letterSpacing" ->
         RLe(MinLetterSpacing, s.letterSpacing)
           /\ RLe(s.letterSpacing, MaxLetterSpacing)
    [] field = "lineHeight" ->
         RLe(MinLineHeight, s.lineHeight) /\ RLe(s.lineHeight, MaxLineHeight)

AllLocked(auto) ==
  \A f \in GeometryFields : ~auto[f]

NoneLocked(auto) ==
  \A f \in GeometryFields : auto[f]

\* C1: one execution of calculateAutoSize (by the effect or by the resize
\* listener) leaves every geometry field unchanged whose lock is set at the
\* time of the call and whose value is inside its slider range; when the
\* three fields are locked the settings are left completely unchanged.
C1_LockedFieldsKept ==
  [][ lastOp' \in AutoSizeOps =>
        /\ \A f \in GeometryFields :
             (~autoSizing[f] /\ FieldInRange(f, settings))
               => settings'[f] = settings[f]
        /\ AllLocked(autoSizing) => settings' = settings ]_vars

\* C1 witness: a run of calculateAutoSize has just written new settings
\* while one of the geometry fields was locked.
C1_Witness ==
  /\ lastOp \in AutoSizeOps
  /\ fit.outcome = "written"
  /\ \E f \in GeometryFields : ~autoSizing[f]


\* Position in the text of the character of cell (x, y), rows of `width`
\* characters and one line break.
CellPos(x, y, width) ==
  (y - 1) * (width + 1) + x

\* The integer idx of 0..n-1 with idx <= leff * (n - 1) < idx + 1.
FloorIndex(leff, n) ==
  CHOOSE i \in 0..(n - 1) :
    /\ RLe(R(i), RMul(leff, R(n - 1)))
    /\ RLt(RMul(leff, R(n - 1)), R(i + 1))

\* C2: for a ramp of length N >= 1 every character that a tick emits for a
\* pixel of luminance L is ramp[idx] with idx = floor(Leff * (N - 1)) inside
\* 0..N-1, where Leff is L, or 1 - L under invert; L = 0 gives ramp[0] and
\* L = 1 gives ramp[N-1] without invert, and the two are swapped with invert.
C2_RampIndex ==
  (lastOp = "processFrame" /\ Len(settings.asciiSet) >= 1) =>
    LET chars == settings.asciiSet
        n == Len(chars)
        width == video.videoWidth \div pixelStep
        height == video.videoHeight \div pixelStep
    IN  \A y \in 1..height, x \in 1..width :
          LET lum == Luminance(imageData[y][x])
              leff == IF settings.invert THEN RSub(R(1), lum) ELSE lum
              emitted == display[CellPos(x, y, width)]
          IN  /\ RLe(R(0), lum) /\ RLe(lum, R(1))
              /\ emitted = chars[FloorIndex(leff, n) + 1]
              /\ (lum = R(0) /\ ~settings.invert) => emitted = chars[1]
              /\ (lum = R(1) /\ ~settings.invert) => emitted = chars[n]
              /\ (lum = R(0) /\ settings.invert) => emitted = chars[n]
              /\ (lum = R(1) /\ settings.invert) => emitted = chars[1]

\* C2 witness: a tick has converted, with invert set and a ramp of several
\* characters, a frame that holds a black, a white and a coloured pixel.
C2_Witness ==
  /\ lastOp = "processFrame"
  /\ settings.invert
  /\ Len(settings.asciiSet) > 2
  /\ \A c \in Palette :
       \E y \in DOMAIN imageData : \E x \in DOMAIN imageData[y] :
         imageData[y][x] = c


\* The text is height rows of width ramp characters, each row followed by one
\* line break.
IsCompleteGrid(text, width, height, chars) ==
  /\ Len(text) = height * (width + 1)
  /\ \A p \in 1..Len(text) :
       IF p % (width + 1) = 0
       THEN text[p] = "\n"
       ELSE \E i \in DOMAIN chars : text[p] = chars[i]

\* C3: every text that processFrame writes to the display is a complete
\* grid of floor(frameHeight/sampleStep) rows, each made of
\* floor(frameWidth/sampleStep) ramp characters and one line break, and the
\* display never holds a partially built grid.
C3_CompleteGrid ==
  /\ lastOp = "processFrame" =>
       IsCompleteGrid(display, video.videoWidth \div pixelStep,
                      video.videoHeight \div pixelStep, settings.asciiSet)
  /\ \/ display = << >>
     \/ Len(display) = (video.videoHeight \div pixelStep)
                         * ((video.videoWidth \div pixelStep) + 1)

\* Tolerance of "fills the viewport", in px.
FillEps ==
  <<1, 1>>

Near(a, b, eps) ==
  RLe(RAbs(RSub(a, b)), eps)

\* C4 as claimed: after an auto-fit run with no dimension locked and no
\* clamp hit, the grid fills the viewport in both dimensions within epsilon.
C4_FillsViewport ==
  ( /\ lastOp \in AutoSizeOps
    /\ fit.outcome \in {"fits", "suppressed", "written"}
    /\ NoneLocked(autoSizing)
    /\ ~fit.clamped )
  => /\ Near(GridWidth(settings, video), R(viewport.w), FillEps)
     /\ Near(GridHeight(settings, video), R(viewport.h), FillEps)

\* C4 as amended: when an auto-fit run with no dimension locked rewrites the
\* geometry without hitting a clamp, the line height is kept, the grid does
\* not overflow the viewport height, it does not overflow the viewport width
\* when the letter spacing is not negative, and it fills the viewport exactly
\* in the limiting dimension only (the height when the height scale is the
\* smaller one, the width when the width scale is the smaller one and the
\* letter spacing is 0); a grid that already fits is left unchanged.
C4_FitsInsideViewport ==
  [][ (lastOp' \in AutoSizeOps /\ NoneLocked(autoSizing)) =>
        LET widthScale == RDiv(R(viewport'.w), GridWidth(settings, video))
            heightScale == RDiv(R(viewport'.h), GridHeight(settings, video))
            newWidth == GridWidth(settings', video)
            newHeight == GridHeight(settings', video)
        IN  /\ fit'.outcome = "fits" => settings' = settings
            /\ (fit'.outcome = "written" /\ ~fit'.clamped) =>
                 /\ settings'.lineHeight = settings.lineHeight
                 /\ RLe(newHeight, R(viewport'.h))
                 /\ RLe(heightScale, widthScale) => newHeight = R(viewport'.h)
                 /\ RLe(R(0), settings.letterSpacing)
                      => RLe(newWidth, R(viewport'.w))
                 /\ (RLe(widthScale, heightScale) /\ settings.letterSpacing = R(0))
                      => newWidth = R(viewport'.w) ]_vars

\* C4 witness: an auto-fit run with no dimension locked has rewritten the
\* geometry without hitting a clamp, and the grid is narrower than the
\* viewport.
C4_Witness ==
  /\ lastOp \in AutoSizeOps
  /\ NoneLocked(autoSizing)
  /\ fit.outcome = "written"
  /\ ~fit.clamped
  /\ RLt(GridWidth(settings, video), R(viewport.w))

\* C5: a run of calculateAutoSize on the state produced by the previous run,
\* with the same viewport, source size and locks, changes no setting.
C5_Idempotent ==
  [][ ( /\ lastOp \in AutoSizeOps
        /\ lastOp' \in AutoSizeOps
        /\ viewport' = viewport )
      => settings' = settings ]_vars

\* C6: the chain of auto-fit runs terminates.  While only the effect runs,
\* the viewport, the locks and the source size are fixed and each run is a
\* function of the geometry, so the chain terminates exactly when it never
\* comes back, with a further run scheduled, to a geometry from which the
\* effect already ran in the same chain.
C6_ChainTerminates ==
  ~( /\ lastOp = "autoSizeEffect"
     /\ autoSizePending
     /\ Geometry(settings) \in chainSeen )

\* C7: after resetSettings the three auto-fit locks are cleared.
C7_ResetClearsLocks ==
  lastOp = "reset" => NoneLocked(autoSizing)

\* C8: a lock that is set stays set in every step that is not a settings
\* reset: auto-fit runs, resizes, edits, randomize calls and camera events
\* never clear it.
C8_LocksMonotone ==
  [][ \A f \in GeometryFields :
        (~autoSizing[f] /\ lastOp' # "reset") => ~autoSizing'[f] ]_vars

\* C8 witness: a resize has run auto-fit while one field was locked and
\* another was not.
C8_Witness ==
  /\ lastOp = "resize"
  /\ fit.outcome \in {"written", "suppressed"}
  /\ \E f, g \in GeometryFields : ~autoSizing[f] /\ autoSizing[g]

\* C9: a slider edit assigns one geometry field, sets the lock of that field
\* and keeps the two other locks; randomize sets the lock of every geometry
\* field it draws and keeps the lock of every geometry field it does not draw.
C9_AssignedFieldLocked ==
  [][ /\ lastOp' = "slider" =>
           \E f \in GeometryFields :
             /\ ~autoSizing'[f]
             /\ \A g \in GeometryFields \ {f} :
                  /\ autoSizing'[g] = autoSizing[g]
                  /\ settings'[g] = settings[g]
      /\ (lastOp' = "randomize" /\ randomSettings.enabled) =>
           \A f \in GeometryFields :
             IF randomSettings.controls[f]
             THEN ~autoSizing'[f] /\ settings'[f] \in
                    (FontSizeDraws \cup LetterSpacingDraws \cup LineHeightDraws)
             ELSE autoSizing'[f] = autoSizing[f] /\ settings'[f] = settings[f]
      /\ (lastOp' = "randomize" /\ ~randomSettings.enabled) =>
           autoSizing' = autoSizing /\ settings' = settings ]_vars

\* C9 witness: randomize has drawn some geometry fields and not others, and
\* a field it did not draw is still unlocked.
C9_Witness ==
  /\ lastOp = "randomize"
  /\ randomSettings.enabled
  /\ \E f, g \in GeometryFields :
       /\ randomSettings.controls[f] /\ ~autoSizing[f]
       /\ ~randomSettings.controls[g] /\ autoSizing[g]

EnabledControls(rs) ==
  {f \in ControlFields : rs.controls[f]}

\* C10: randomize with exactly one field enabled changes no other field of
\* the settings.
C10_OnlyEnabledFieldChanges ==
  [][ ( /\ lastOp' = "randomize"
        /\ Cardinality(EnabledControls(randomSettings)) = 1 )
      => \A g \in DOMAIN settings :
           g \notin EnabledControls(randomSettings) => settings'[g] = settings[g] ]_vars

\* C10 witness: randomize has run in random mode with a single field
\* enabled, on settings that differ from the defaults in another field, and
\* has given the enabled field a value other than its default.
C10_Witness ==
  /\ lastOp = "randomize"
  /\ randomSettings.enabled
  /\ Cardinality(EnabledControls(randomSettings)) = 1
  /\ \E f \in EnabledControls(randomSettings) : settings[f] # DEFAULT_SETTINGS[f]
  /\ \E g \in DOMAIN settings \ EnabledControls(randomSettings) :
       settings[g] # DEFAULT_SETTINGS[g]

\* C11: stopAutoRandomize leaves no interval running, clears the ref and the
\* autoMode flag; a second call in a row changes nothing; and the timer
\* fires only between a startAutoRandomize and the next stopAutoRandomize,
\* that is while autoMode is set and the ref holds an interval.
C11_StopIsFinal ==
  [][ /\ lastOp' = "stopAutoRandomize" =>
           /\ intervals' = {}
           /\ randomIntervalRef' = 0
           /\ ~randomSettings'.autoMode
           /\ (lastOp = "stopAutoRandomize" =>
                 /\ intervals' = intervals
                 /\ randomSettings' = randomSettings
                 /\ settings' = settings)
      /\ lastOp' = "timerTick" =>
           /\ randomSettings.autoMode
           /\ \E t \in intervals : t.id = randomIntervalRef ]_vars

\* A stopAutoRandomize without any timer, then a second one, after a timer
\* was started, fired and was stopped.
C11_Witness ==
  /\ lastOp = "stopAutoRandomize"
  /\ intervalIds = 1
  /\ settings # DEFAULT_SETTINGS
  /\ intervals = {}

FrameOps ==
  {"startStopEffect", "animationFrame"}

C13_LoopSurvivesSkip ==
  ( /\ mounted /\ isPlaying
    /\ loopDeps = LoopDeps(settings, isPlaying) )
  => frames # {}

\* C14: a failed open stores the notice while the component is mounted; from
\* then on the request stays failed (no retry), the notice stays, isPlaying
\* stays false, no tick converts a frame and the display stays empty.
C14_CameraFailureIsFinal ==
  [][ /\ lastOp' = "cameraDenied" =>
           /\ camera'.request = "rejected"
           /\ mounted => cameraError' = CameraErrorNotice
      /\ camera.request = "rejected" =>
           /\ camera' = camera
           /\ cameraError' = cameraError
      /\ camera'.request = "rejected" =>
           /\ ~isPlaying'
           /\ tick'.outcome # "converted"
           /\ frames' = {}
           /\ display' = << >> ]_vars

\* The open failed, the notice is shown, and the start/stop effect and a
\* settings change have run since.
C14_Witness ==
  /\ camera.request = "rejected"
  /\ cameraError = CameraErrorNotice
  /\ settings.invert
  /\ lastOp = "startStopEffect"

\* C17: no timer tick fires once the component is torn down.
C17_NoTickAfterTeardown ==
  ~(tornDown /\ lastOp = "timerTick")

\* C18: once the component is torn down and getUserMedia has resolved, the
\* tracks of the stream were stopped exactly once.
C18_StreamStoppedOnce ==
  (tornDown /\ camera.request = "resolved") => camera.stops = 1

\* C19: a tick that converts a frame uses the settings of the current render.
C19_TickUsesCurrentSettings ==
  [][ (lastOp' \in FrameOps /\ tick'.outcome = "converted")
        => tick'.closure.settings = settings ]_vars

\* C15: the ramp of the settings is never empty.
C15_RampNeverEmpty ==
  settings.asciiSet # << >>

GeometryRanges ==
  << <<R(MinFontSize), R(MaxFontSize)>>,
     <<MinLetterSpacing, MaxLetterSpacing>>,
     <<MinLineHeight, MaxLineHeight>> >>

\* The value auto-fit stores for a solved value x of the range rg when x is
\* outside rg: the boundary that x passed.
Boundary(rg, x) ==
  IF RLt(x, rg[1]) THEN rg[1] ELSE rg[2]

OutOfRange(rg, x) ==
  RLt(x, rg[1]) \/ RLt(rg[2], x)

\* C16 as claimed: the three geometry fields stay in their ranges and the
\* sample step is at least 1; whenever an auto-fit run solves a value outside
\* its range, the value stored after the run is exactly the boundary.
C16_RangesAndBoundary ==
  [][ /\ \A f \in GeometryFields : FieldInRange(f, settings')
      /\ pixelStep >= 1
      /\ (lastOp' \in AutoSizeOps /\ fit'.outcome \in {"written", "suppressed"}) =>
           LET solved == SolveAutoSize(settings, autoSizing, viewport', video)
           IN  \A i \in 1..3 :
                 OutOfRange(GeometryRanges[i], solved[i]) =>
                   Geometry(settings')[i] = Boundary(GeometryRanges[i], solved[i])
    ]_vars

\* C16 as amended: the three geometry fields stay in their ranges and the
\* sample step is at least 1; whenever an auto-fit run writes the settings
\* and a solved value was outside its range, the value stored is exactly the
\* boundary.  (A run whose clamped values all lie within epsilon of the
\* current ones writes nothing.)
C16_RangesAndWrittenBoundary ==
  [][ /\ \A f \in GeometryFields : FieldInRange(f, settings')
      /\ pixelStep >= 1
      /\ (lastOp' \in AutoSizeOps /\ fit'.outcome = "written") =>
           LET solved == SolveAutoSize(settings, autoSizing, viewport', video)
           IN  \A i \in 1..3 :
                 OutOfRange(GeometryRanges[i], solved[i]) =>
                   Geometry(settings')[i] = Boundary(GeometryRanges[i], solved[i])
    ]_vars

\* An auto-fit run has written a font size that was clamped to its minimum.
C16_Witness ==
  /\ lastOp \in AutoSizeOps
  /\ fit = [outcome |-> "written", clamped |-> TRUE]
  /\ settings.fontSize = R(MinFontSize)

\* C20: the mount always completes; when the stored record is missing or
\* cannot be parsed the settings after the load are DEFAULT_SETTINGS, and
\* when it parses every field absent from it has its default value.
C20_LoadFallsBackToDefaults ==
  [][ lastOp' = "mount" =>
        /\ mounted'
        /\ storage.kind \in {"missing", "corrupt"} => settings' = DEFAULT_SETTINGS
        /\ storage.kind = "record" =>
             \A f \in DOMAIN DEFAULT_SETTINGS :
               f \notin DOMAIN storage.fields => settings'[f] = DEFAULT_SETTINGS[f]
    ]_vars

\* The component has mounted on a stored record that holds one field only.
C20_Witness ==
  /\ lastOp = "mount"
  /\ settings = [DEFAULT_SETTINGS EXCEPT !.letterSpacing = <<1, 2>>]

\* The three geometry values clamped to their ranges, field by field.
ClampFontSize(x) ==
  Clamp(R(MinFontSize), R(MaxFontSize), x)

ClampLetterSpacing(x) ==
  Clamp(MinLetterSpacing, MaxLetterSpacing, x)

ClampLineHeight(x) ==
  Clamp(MinLineHeight, MaxLineHeight, x)

\* The equations of the lock policies, for the settings s before the run.
\*   viewport.w / (cols * (glyphAspectRatio + letterSpacing))
FontSizeFromWidth(s, vp, vid) ==
  RDiv(R(vp.w),
       RMul(R(GridCols(vid)),
            RAdd(measureGlyphAspect(s.fontFamily, s.fontSize), s.letterSpacing)))

\*   viewport.h / (rows * lineHeight)
FontSizeFromHeight(s, vp, vid) ==
  RDiv(R(vp.h), RMul(R(GridRows(vid)), s.lineHeight))

\*   letterSpacing with cols * (fontSize*glyphAspect + letterSpacing*fontSize) = viewport.w
LetterSpacingFromWidth(s, fontSize, vp, vid) ==
  RDiv(RSub(RDiv(R(vp.w), R(GridCols(vid))),
            RMul(fontSize, measureGlyphAspect(s.fontFamily, s.fontSize))),
       fontSize)

\*   lineHeight with rows * fontSize * lineHeight = viewport.h
LineHeightFromHeight(fontSize, vp, vid) ==
  RDiv(R(vp.h), RMul(R(GridRows(vid)), fontSize))

\* C21: when an auto-fit run writes with letterSpacing locked and fontSize
\* unlocked, the font size stored is viewport.w / (cols * (glyphAspectRatio +
\* letterSpacing)), clamped, and the line height, when unlocked, is
\* viewport.h / (rows * fontSize) for that font size, clamped.
C21_FontSizeFromWidthEquation ==
  [][ ( /\ lastOp' \in AutoSizeOps /\ fit'.outcome = "written"
        /\ ~autoSizing.letterSpacing /\ autoSizing.fontSize ) =>
        LET fs == FontSizeFromWidth(settings, viewport', video)
        IN  /\ settings'.fontSize = ClampFontSize(fs)
            /\ autoSizing.lineHeight =>
                 settings'.lineHeight =
                   ClampLineHeight(LineHeightFromHeight(fs, viewport', video))
    ]_vars

\* C22 as claimed: when an auto-fit run writes with lineHeight locked and
\* fontSize unlocked, whatever the letterSpacing lock is, the font size stored
\* is viewport.h / (rows * lineHeight), clamped, and the letter spacing is
\* solved from the width equation when it is unlocked and kept when locked.
C22_FontSizeFromHeightAnyLock ==
  [][ ( /\ lastOp' \in AutoSizeOps /\ fit'.outcome = "written"
        /\ ~autoSizing.lineHeight /\ autoSizing.fontSize ) =>
        LET fs == FontSizeFromHeight(settings, viewport', video)
        IN  /\ settings'.fontSize = ClampFontSize(fs)
            /\ settings'.letterSpacing =
                 IF autoSizing.letterSpacing
                 THEN ClampLetterSpacing(
                        LetterSpacingFromWidth(settings, fs, viewport', video))
                 ELSE settings.letterSpacing
    ]_vars

\* C22 as amended: the font size is viewport.h / (rows * lineHeight) and the
\* letter spacing is solved from the width equation when lineHeight is the
\* only lock; when letterSpacing is locked as well, the letterSpacing-locked
\* policy decides the font size, and letterSpacing and lineHeight are kept.
C22_FontSizeFromHeight ==
  [][ ( /\ lastOp' \in AutoSizeOps /\ fit'.outcome = "written"
        /\ ~autoSizing.lineHeight /\ autoSizing.fontSize ) =>
        LET fs == FontSizeFromHeight(settings, viewport', video)
        IN  IF autoSizing.letterSpacing
            THEN /\ settings'.fontSize = ClampFontSize(fs)
                 /\ settings'.letterSpacing =
                      ClampLetterSpacing(
                        LetterSpacingFromWidth(settings, fs, viewport', video))
                 /\ settings'.lineHeight = settings.lineHeight
            ELSE /\ settings'.letterSpacing = settings.letterSpacing
                 /\ settings'.lineHeight = settings.lineHeight
    ]_vars

\* An auto-fit run has written while lineHeight was the only lock.
C22_Witness ==
  /\ lastOp \in AutoSizeOps
  /\ fit.outcome = "written"
  /\ autoSizing = [fontSize |-> TRUE, letterSpacing |-> TRUE, lineHeight |-> FALSE]
  /\ settings.lineHeight = MaxLineHeight

\* What the fontSize-locked policy stores: each unlocked field solved from
\* its equation and clamped, each locked field kept.
FontSizeLockedResult(s, auto, vp, vid) ==
  << s.fontSize,
     IF auto.letterSpacing
     THEN ClampLetterSpacing(LetterSpacingFromWidth(s, s.fontSize, vp, vid))
     ELSE s.letterSpacing,
     IF auto.lineHeight
     THEN ClampLineHeight(LineHeightFromHeight(s.fontSize, vp, vid))
     ELSE s.lineHeight >>

\* C23 as claimed: with fontSize locked, a run on a grid that does not equal
\* the viewport, a grid smaller than the viewport included, stores the
\* solved letter spacing and line height (unless the change is below epsilon).
C23_FontSizeLockedAlsoWhenSmaller ==
  [][ ( /\ lastOp' \in AutoSizeOps
        /\ fit'.outcome \in {"fits", "suppressed", "written"}
        /\ ~autoSizing.fontSize
        /\ ~( /\ GridWidth(settings, video) = R(viewport'.w)
              /\ GridHeight(settings, video) = R(viewport'.h) ) ) =>
        \/ fit'.outcome = "suppressed"
        \/ Geometry(settings') =
             FontSizeLockedResult(settings, autoSizing, viewport', video)
    ]_vars

\* C23 as amended: with fontSize locked, a run on a grid that overflows the
\* viewport in at least one dimension stores the solved letter spacing and
\* line height, each only when its own lock is not set (unless the change is
\* below epsilon); a grid that fits inside the viewport is left unchanged.
C23_FontSizeLocked ==
  [][ ( /\ lastOp' \in AutoSizeOps
        /\ fit'.outcome \in {"fits", "suppressed", "written"}
        /\ ~autoSizing.fontSize ) =>
        IF GridFits(settings, video, viewport')
        THEN settings' = settings
        ELSE \/ fit'.outcome = "suppressed"
             \/ Geometry(settings') =
                  FontSizeLockedResult(settings, autoSizing, viewport', video)
    ]_vars

\* An auto-fit run has written while fontSize was the only lock.
C23_Witness ==
  /\ lastOp \in AutoSizeOps
  /\ fit.outcome = "written"
  /\ autoSizing = [fontSize |-> FALSE, letterSpacing |-> TRUE, lineHeight |-> TRUE]

\* C24: when the dimensions of the source have just become known, a run of
\* calculateAutoSize is scheduled, whatever the user does next.
C24_RunScheduledOnMetadata ==
  lastOp = "videoMetadata" => autoSizePending

\* C25: a call of processFrame while videoWidth or videoHeight is 0 converts
\* nothing and leaves the display as it was.
C25_NoGridWithoutPixels ==
  [][ ( /\ lastOp' \in FrameOps
        /\ tick' # NoTick
        /\ (video.videoWidth = 0 \/ video.videoHeight = 0) ) =>
        /\ tick'.outcome = "skipped"
        /\ display' = display
        /\ imageData' = imageData ]_vars

\* processFrame was called while playing, before the stream had dimensions.
C25_Witness ==
  /\ lastOp \in FrameOps
  /\ tick.outcome = "skipped"
  /\ tick.closure.isPlaying
  /\ video.videoWidth = 0

EpsGeometry ==
  <<EpsFontSize, EpsLetterSpacing, EpsLineHeight>>

\* C26: an auto-fit run changes the settings only if at least one solved
\* (clamped) value differs from the current one by its epsilon or more, and
\* it leaves them unchanged when the three differ by less than their epsilon.
C26_ChangeSuppression ==
  [][ lastOp' \in AutoSizeOps =>
        LET new == ClampGeometry(SolveAutoSize(settings, autoSizing,
                                               viewport', video))
            diff(i) == RAbs(RSub(new[i], Geometry(settings)[i]))
        IN  /\ settings' # settings =>
                 /\ fit'.outcome = "written"
                 /\ \E i \in 1..3 : RLe(EpsGeometry[i], diff(i))
            /\ ( /\ fit'.outcome \in {"suppressed", "written"}
                 /\ \A i \in 1..3 : RLt(diff(i), EpsGeometry[i]) ) =>
                 settings' = settings ]_vars

\* A run was suppressed although the solved font size differs from the
\* current one, by less than epsilon.
C26_Witness ==
  /\ lastOp \in AutoSizeOps
  /\ fit = [outcome |-> "suppressed", clamped |-> TRUE]
  /\ settings.fontSize = <<61, 15>>

\* C27: at most one animation-frame callback is pending, and it is the one
\* frameRef designates.
C27_OnePendingFrame ==
  /\ Cardinality(frames) <= 1
  /\ frames \subseteq {frameRef}

\* A callback is pending after a settings change made the effect restart
\* the loop.
C27_Witness ==
  /\ lastOp = "startStopEffect"
  /\ frames # {}
  /\ settings.invert
  /\ settings.asciiSet = ASCII_PRESETS.Minimal

\* C28: while random mode is disabled, neither a randomizeSettings call nor
\* a timer tick changes settings or locks; and a timer tick changes no field
\* whose switch is off at the tick.
C28_NoRandomizeWhileDisabled ==
  [][ lastOp' \in {"randomize", "timerTick"} =>
        /\ ~randomSettings.enabled =>
             (settings' = settings /\ autoSizing' = autoSizing)
        /\ \A f \in ControlFields :
             ~randomSettings.controls[f] => settings'[f] = settings[f] ]_vars

\* C29: at most one interval is live, it is the one of randomIntervalRef, and
\* autoMode is set exactly when an interval is live.
C29_OneTimerAndFlag ==
  /\ Cardinality(intervals) <= 1
  /\ \A t \in intervals : t.id = randomIntervalRef
  /\ randomSettings.autoMode <=> intervals # {}

\* startAutoRandomize was called while an interval was running.
C29_Witness ==
  /\ lastOp = "startAutoRandomize"
  /\ intervalIds = 2
  /\ Cardinality(intervals) = 1

\* C30: a run on a grid that fits inside the viewport leaves the three
\* geometry fields unchanged, whatever the locks; and after a run with no
\* lock and no clamping the grid overflows the viewport in neither dimension.
C30_NeverEnlargesNorOverflows ==
  [][ ( /\ lastOp' \in AutoSizeOps
        /\ fit'.outcome \in {"fits", "allLocked", "suppressed", "written"} ) =>
        /\ GridFits(settings, video, viewport') =>
             Geometry(settings') = Geometry(settings)
        /\ ( /\ NoneLocked(autoSizing)
             /\ fit'.outcome = "written" /\ ~fit'.clamped ) =>
             GridFits(settings', video, viewport') ]_vars

=============================================================================
